---- MODULE Spec2Model ----
(***************************************************************************)
(* The ingestion and deletion background jobs of backend/main.py           *)
(* (process_file_task, delete_file_task) together with the spreadsheet     *)
(* converter (SpreadsheetLogic), over a Firestore-like document store, a   *)
(* storage bucket and the local /tmp directory.                            *)
(*                                                                         *)
(* Every call to the store, the bucket or the push channel is one atomic   *)
(* step that either takes effect and returns, or raises without effect.    *)
(* Jobs interleave at these calls (FastAPI runs sync background tasks in   *)
(* a thread pool).                                                         *)
(***************************************************************************)
EXTENDS Integers, Sequences, FiniteSets, TLC

\* ------------------------------------------------------------------ bounds

\* Ingestion jobs (process_file_task runs) the model can start.
NumJobs == 2
\* Deletion jobs (delete_file_task runs) the model can start.
NumDeletes == 2
\* Runs of either kind the model can start.
MaxRuns == 3
\* Runs of either kind the model can start when the uploads are large.
MaxLargeRuns == 2
\* Rows of the small spreadsheets.
SmallRows == 3
\* Rows by which the large spreadsheet exceeds the publish cap.
ExtraRows == 1
\* Columns of the sheets the converter alone is given.
DrawnCols == 2

\* ------------------------------------------------------- program constants

\* processed_data[:400]
PublishCap == 400
\* "Firestore batch limit is 500 operations"
BatchLimit == 500
\* to_numeric(stock) < 10
LowStockBelow == 10

\* ---------------------------------------------------------------- strings

\* Text the code inspects (file names, column headers, cell text) is a
\* sequence of one-character strings; text it only copies is a string.
LowerOf(c) ==
    CASE c = "A" -> "a" [] c = "B" -> "b" [] c = "C" -> "c" [] c = "D" -> "d"
      [] c = "E" -> "e" [] c = "F" -> "f" [] c = "G" -> "g" [] c = "H" -> "h"
      [] c = "I" -> "i" [] c = "J" -> "j" [] c = "K" -> "k" [] c = "L" -> "l"
      [] c = "M" -> "m" [] c = "N" -> "n" [] c = "O" -> "o" [] c = "P" -> "p"
      [] c = "Q" -> "q" [] c = "R" -> "r" [] c = "S" -> "s" [] c = "T" -> "t"
      [] c = "U" -> "u" [] c = "V" -> "v" [] c = "W" -> "w" [] c = "X" -> "x"
      [] c = "Y" -> "y" [] c = "Z" -> "z"
      [] OTHER -> c

\* str.strip(): leading and trailing blanks removed.
RECURSIVE LStrip(_)
LStrip(s) == IF s # <<>> /\ Head(s) = " " THEN LStrip(Tail(s)) ELSE s

RECURSIVE RStrip(_)
RStrip(s) ==
    IF s # <<>> /\ s[Len(s)] = " " THEN RStrip(SubSeq(s, 1, Len(s) - 1)) ELSE s

Strip(s) == RStrip(LStrip(s))

\* str.lower()
Lower(s) == [i \in 1..Len(s) |-> LowerOf(s[i])]

\* str.replace(' ', '_')
ReplaceBlank(s) == [i \in 1..Len(s) |-> IF s[i] = " " THEN "_" ELSE s[i]]

\* str.endswith(suffix)
EndsWith(s, suffix) ==
    /\ Len(s) >= Len(suffix)
    /\ SubSeq(s, Len(s) - Len(suffix) + 1, Len(s)) = suffix

\* ------------------------------------------------------------------ cells

\* A cell is a number m / 10^e, a text, or missing (NaN).
Num(m, e) == [k |-> "num", m |-> m, e |-> e]
Text(s) == [k |-> "str", s |-> s]
NaN == [k |-> "nan"]

Digits == {"0", "1", "2", "3", "4", "5", "6", "7", "8", "9"}

DigitVal(c) ==
    CASE c = "0" -> 0 [] c = "1" -> 1 [] c = "2" -> 2 [] c = "3" -> 3
      [] c = "4" -> 4 [] c = "5" -> 5 [] c = "6" -> 6 [] c = "7" -> 7
      [] c = "8" -> 8 [] c = "9" -> 9

RECURSIVE Pow10(_)
Pow10(e) == IF e = 0 THEN 1 ELSE 10 * Pow10(e - 1)

RECURSIVE DigitsVal(_)
DigitsVal(s) ==
    IF s = <<>> THEN 0
    ELSE 10 * DigitsVal(SubSeq(s, 1, Len(s) - 1)) + DigitVal(s[Len(s)])

AllDigits(s) == \A i \in 1..Len(s) : s[i] \in Digits

\* The decimal literals pandas' numeric parser accepts, as far as the model's
\* cells go: blanks around, an optional sign, digits with at most one point.
ParseDecimal(s) ==
    LET t == Strip(s)
        neg == t # <<>> /\ Head(t) = "-"
        u == IF neg THEN Tail(t) ELSE t
        dots == {i \in 1..Len(u) : u[i] = "."}
        int == IF dots = {} THEN u
               ELSE SubSeq(u, 1, (CHOOSE i \in dots : TRUE) - 1)
        frac == IF dots = {} THEN <<>>
                ELSE SubSeq(u, (CHOOSE i \in dots : TRUE) + 1, Len(u))
        ok == /\ Cardinality(dots) <= 1
              /\ AllDigits(int) /\ AllDigits(frac)
              /\ Len(int) + Len(frac) > 0
        mag == DigitsVal(int \o frac)
    IN  IF ok THEN Num(IF neg THEN 0 - mag ELSE mag, Len(frac)) ELSE NaN

\* pd.to_numeric(column, errors='coerce'), cell by cell.
ToNumeric(c) ==
    CASE c.k = "num" -> c
      [] c.k = "str" -> ParseDecimal(c.s)
      [] OTHER -> NaN

\* Series.fillna(v), cell by cell.
FillNa(c, v) == IF c.k = "nan" THEN v ELSE c

\* numeric < n; a comparison with NaN is False.
LessThan(c, n) == c.k = "num" /\ c.m < n * Pow10(c.e)

\* ------------------------------------------------------------ the converter

\* A DataFrame: the column labels and, per row, one cell per column.
Frame(cols, rows) == [cols |-> cols, rows |-> rows]

Columns(df) == {df.cols[i] : i \in 1..Len(df.cols)}

\* The positions of the columns labelled h.
Labelled(df, h) == {i \in 1..Len(df.cols) : df.cols[i] = h}

Amount == <<"a", "m", "o", "u", "n", "t">>
Stock == <<"s", "t", "o", "c", "k">>
LowStockAlert ==
    <<"l", "o", "w", "_", "s", "t", "o", "c", "k", "_", "a", "l", "e", "r", "t">>

\* df.columns.str.strip().str.lower().str.replace(' ', '_')
clean_headers(df) ==
    Frame([i \in 1..Len(df.cols) |-> ReplaceBlank(Lower(Strip(df.cols[i])))],
          df.rows)

\* df[h] = f(df[h]) for the one column labelled h.
MapColumn(df, h, F(_)) ==
    Frame(df.cols,
          [r \in 1..Len(df.rows) |->
              [i \in 1..Len(df.cols) |->
                  IF df.cols[i] = h THEN F(df.rows[r][i]) ELSE df.rows[r][i]]])

\* df[h] = f(df[g]): the column labelled h is replaced, or appended as the
\* last column when there is none.
DeriveColumn(df, h, g, F(_)) ==
    LET src == CHOOSE i \in Labelled(df, g) : TRUE
    IN  IF Labelled(df, h) # {}
        THEN Frame(df.cols,
                   [r \in 1..Len(df.rows) |->
                       [i \in 1..Len(df.cols) |->
                           IF df.cols[i] = h THEN F(df.rows[r][src])
                           ELSE df.rows[r][i]]])
        ELSE Frame(Append(df.cols, h),
                   [r \in 1..Len(df.rows) |->
                       Append(df.rows[r], F(df.rows[r][src]))])

EmptyText == Text(<<>>)
FillEmpty(c) == FillNa(c, EmptyText)
\* Mutant: to_numeric without the fillna(0).
CoerceAmountNoFill(c) == ToNumeric(c)

CoerceAmount(c) == FillNa(ToNumeric(c), Num(0, 0))
Bool(b) == [k |-> "bool", b |-> b]
\* Mutant: the comparison written <= 10.
IsLowStockOrEqual(c) ==
    LET n == ToNumeric(c)
    IN  Bool(LessThan(n, LowStockBelow)
               \/ (n.k = "num" /\ n.m = LowStockBelow * Pow10(n.e)))

IsLowStock(c) == Bool(LessThan(ToNumeric(c), LowStockBelow))

\* Whether apply_business_rules raises: df[h] of a label that two columns
\* share is a DataFrame, which pd.to_numeric rejects with a TypeError.
RulesRaise(df, category) ==
    \/ category = "financial" /\ Cardinality(Labelled(df, Amount)) > 1
    \/ category = "inventory" /\ Cardinality(Labelled(df, Stock)) > 1

apply_business_rules(df, category) ==
    LET filled == Frame(df.cols,
                        [r \in 1..Len(df.rows) |->
                            [i \in 1..Len(df.cols) |-> FillEmpty(df.rows[r][i])]])
    IN  IF category = "financial" /\ Amount \in Columns(filled)
        THEN MapColumn(filled, Amount, CoerceAmount)
        ELSE IF category = "inventory" /\ Stock \in Columns(filled)
        THEN DeriveColumn(filled, LowStockAlert, Stock, IsLowStock)
        ELSE filled

\* df.to_dict(orient='records'): one field map per row; of two columns with
\* one label the last one is kept.
ToRecords(df) ==
    [r \in 1..Len(df.rows) |->
        [h \in Columns(df) |->
            df.rows[r][CHOOSE i \in Labelled(df, h) :
                          \A k \in Labelled(df, h) : k <= i]]]

\* pd.DataFrame(raw_data) of the records of a parsed sheet: the sheet again,
\* except that a sheet without rows yields a frame without columns.
FromRecords(raw_data) ==
    IF raw_data.rows = <<>> THEN Frame(<<>>, <<>>) ELSE raw_data

\* SpreadsheetLogic.process: the possible results, each the list of output
\* rows or an exception. The frame of an empty list has no string labels:
\* whether df.columns.str then raises depends on the pandas version.
Rows(rs) == [raised |-> FALSE, rows |-> rs]
Raised(msg) == [raised |-> TRUE, msg |-> msg]

process(raw_data, category) ==
    LET df == clean_headers(FromRecords(raw_data))
    IN  IF df.cols = <<>>
        THEN {Rows(<<>>), Raised("Can only use .str accessor with string values!")}
        ELSE IF RulesRaise(df, category)
        THEN {Raised("arg must be a list, tuple, 1-d array, or Series")}
        ELSE {Rows(ToRecords(apply_business_rules(df, category)))}

\* ------------------------------------------------------------- environment

None == "None"

\* The objects of the storage bucket by path: the format of the file and the
\* sheet a parser of that format reads from it.
Sheet(fmt, cols, rows) == [fmt |-> fmt, table |-> Frame(cols, rows)]

LedgerCell(i) ==
    CASE i % 3 = 1 -> Num(125, 1) [] i % 3 = 2 -> NaN [] OTHER -> Num(7, 0)

StockCell(i) ==
    CASE i % 3 = 1 -> Text(<<"3">>)
      [] i % 3 = 2 -> Text(<<"5", "0">>)
      [] OTHER -> Text(<<"l", "o", "w">>)

Bucket ==
    [p \in {"uploads/ledger.csv", "uploads/stock.csv", "uploads/empty.xlsx",
            "uploads/large.csv", "uploads/full.csv"} |->
        CASE p = "uploads/ledger.csv" ->
               Sheet("csv", << <<" ", "A", "m", "o", "u", "n", "t">> >>,
                     [i \in 1..SmallRows |-> <<LedgerCell(i)>>])
          [] p = "uploads/stock.csv" ->
               Sheet("csv", << <<"S", "T", "O", "C", "K">> >>,
                     [i \in 1..SmallRows |-> <<StockCell(i)>>])
          [] p = "uploads/empty.xlsx" ->
               Sheet("xlsx", << <<"A", "m", "o", "u", "n", "t">> >>, <<>>)
          [] p = "uploads/large.csv" ->
               Sheet("csv", << <<"S", "t", "o", "c", "k">> >>,
                     [i \in 1..(PublishCap + ExtraRows) |-> <<Num(i, 0)>>])
          [] OTHER ->
               Sheet("csv", << <<"S", "t", "o", "c", "k">> >>,
                     [i \in 1..PublishCap |-> <<Num(i, 0)>>])]

\* ProcessRequest
Request(fileName, filePath, category, fileType, customName, expiryDate) ==
    [fileName |-> fileName, filePath |-> filePath, userId |-> "u1",
     category |-> category, fileType |-> fileType, customName |-> customName,
     expiryDate |-> expiryDate]

A_csv == <<"a", ".", "c", "s", "v">>
B_xlsx == <<"b", ".", "x", "l", "s", "x">>

\* The uploads of small files: two share a file name, one has no rows.
SmallRequests ==
    {Request(A_csv, "uploads/ledger.csv", "financial", "main", None, None),
     Request(A_csv, "uploads/stock.csv", "inventory", "side", "Stock",
             "2026-12-31"),
     Request(B_xlsx, "uploads/empty.xlsx", "financial", "main", None, None)}

\* The uploads of files at and over the publish cap, of a sheet without rows
\* and of an object that is gone.
LargeRequests ==
    {Request(A_csv, "uploads/large.csv", "inventory", "main", None, None),
     Request(A_csv, "uploads/full.csv", "other", "main", None, None),
     Request(B_xlsx, "uploads/empty.xlsx", "financial", "main", None, None),
     Request(B_xlsx, "uploads/gone.xlsx", "other", "main", None, None)}

\* --------------------------------------------------------------- the store

\* DocumentReference.set
DocSet(coll, id, data) ==
    [x \in DOMAIN coll \cup {id} |-> IF x = id THEN data ELSE coll[x]]

\* DocumentReference.update: the fields are merged into the document; a
\* document that does not exist is not created, the call raises NotFound.
Updated(docs) == [raised |-> FALSE, docs |-> docs]
NotFound(docs) == [raised |-> TRUE, docs |-> docs]

\* Mutant: the update written as set(fields, merge=True), which creates the
\* document when there is none.
DocUpdateAsMerge(coll, id, fields) ==
    IF id \in DOMAIN coll
    THEN Updated([coll EXCEPT ![id] = fields @@ coll[id]])
    ELSE Updated(DocSet(coll, id, fields))

DocUpdate(coll, id, fields) ==
    IF id \in DOMAIN coll
    THEN Updated([coll EXCEPT ![id] = fields @@ coll[id]])
    ELSE NotFound(coll)

\* DocumentReference.delete: no error when the document does not exist.
DocDelete(coll, id) == [x \in DOMAIN coll \ {id} |-> coll[x]]

\* WriteBatch.commit raises when the batch holds more operations than the
\* store's limit.
BatchTooLarge(n) == n > BatchLimit

\* ------------------------------------------------------------------- state

VARIABLES
    tasks,     \* collection processing_tasks: document id -> fields
    app_data,  \* collection app_data: the published documents
    fs,        \* the files under /tmp: path -> what was downloaded, by whom
    job,       \* the runs of process_file_task: locals and position
    del,       \* the runs of delete_file_task: locals and position
    limits     \* how many runs may start, and the uploads that arrive (or
               \* the sheet and category the converter alone is given)

vars == <<tasks, app_data, fs, job, del, limits>>

Jobs == 1..NumJobs
Deletes == 1..NumDeletes

\* Mutant: the document is named after the uploading user, document(userId).
TaskIdOfUser(j) == 1

\* db.collection('processing_tasks').document(): a fresh id for every run.
TaskId(j) == j
\* db.collection('app_data').document(): a fresh id for every record.
RecordId(t, i) == <<t, i>>
\* A task id no document ever had.
UnknownId == 0

\* The uploads that arrive under the limits.
Uploads == IF limits.uploads = "large" THEN LargeRequests ELSE SmallRequests

NoRequest == Request(<<>>, "", "", "", None, None)

\* pc: the next statement of the run. err: str(e) of the exception the outer
\* handler caught. escaping: an exception is propagating out of the handler.
\* History: created (line 114 returned), notifyFailed (line 166 raised),
\* readFrom (the run whose download line 122/124 parsed), commit (the status
\* of the run's task when line 141 committed).
IdleJob ==
    [pc |-> "idle", req |-> NoRequest, data |-> <<>>, err |-> "",
     escaping |-> FALSE, created |-> FALSE, notifyFailed |-> FALSE,
     readFrom |-> 0, commit |-> "none"]

\* docs: the references batched for deletion. History: failed (an exception
\* was swallowed at line 204), at (the statement that raised it), after (a
\* run for the same id had returned before this one started).
IdleDelete ==
    [pc |-> "idle", taskId |-> UnknownId, docs |-> {}, failed |-> FALSE,
     at |-> "none", after |-> FALSE]

Started(limit) ==
    /\ tasks = <<>>
    /\ app_data = {}
    /\ fs = <<>>
    /\ job = [j \in Jobs |-> IdleJob]
    /\ del = [d \in Deletes |-> IdleDelete]
    /\ limits = limit

\* Ingestions of the small uploads and deletions, concurrently.
Init ==
    Started([jobs |-> NumJobs, deletes |-> NumDeletes, runs |-> MaxRuns,
             uploads |-> "small"])

\* Ingestions of the large uploads and deletions, concurrently.
InitLarge ==
    Started([jobs |-> NumJobs, deletes |-> NumDeletes, runs |-> MaxLargeRuns,
             uploads |-> "large"])

\* The runs started so far.
Runs ==
    Cardinality({j \in Jobs : job[j].pc # "idle"})
        + Cardinality({d \in Deletes : del[d].pc # "idle"})

\* ------------------------------------------------------- process_file_task

\* temp_path = f"/tmp/{request.fileName}"
temp_path(req) == <<"/", "t", "m", "p", "/">> \o req.fileName

\* task_data, without the server timestamp.
task_data(req) ==
    LET base == [fileName |-> req.fileName, uploadedBy |-> req.userId,
                 status |-> "processing", category |-> req.category,
                 type |-> req.fileType, notificationSent |-> FALSE]
        name == [customName |-> req.customName]
        expiry == [expiryDate |-> req.expiryDate]
    IN  IF req.fileType # "side" THEN base
        ELSE IF req.expiryDate \in {None, ""} THEN base @@ name
        ELSE base @@ name @@ expiry

\* POST /convert: the job is queued and the request acknowledged.
trigger_conversion(j, r) ==
    /\ job[j].pc = "idle"
    /\ \A i \in 1..(j - 1) : job[i].pc # "idle"
    /\ j <= limits.jobs /\ Runs < limits.runs
    /\ r \in Uploads
    /\ job' = [job EXCEPT ![j].pc = "create", ![j].req = r]
    /\ UNCHANGED <<tasks, app_data, fs, del, limits>>

\* The outer except clause is entered with exception e.
Caught(j, msg) == [job EXCEPT ![j].pc = "except", ![j].err = msg]

\* A, lines 94-114: task_ref.set(task_data).
CreateTaskOk(j) ==
    /\ job[j].pc = "create"
    /\ tasks' = DocSet(tasks, TaskId(j), task_data(job[j].req))
    /\ job' = [job EXCEPT ![j].pc = "fetch", ![j].created = TRUE]
    /\ UNCHANGED <<app_data, fs, del, limits>>

\* Mutant: the failure of the set is swallowed and the run goes on.
CreateTaskRaiseGoesOn(j) ==
    /\ job[j].pc = "create"
    /\ job' = [job EXCEPT ![j].pc = "fetch", ![j].err = "503 set failed"]
    /\ UNCHANGED <<tasks, app_data, fs, del, limits>>

CreateTaskRaise(j) ==
    /\ job[j].pc = "create"
    /\ job' = Caught(j, "503 set failed")
    /\ UNCHANGED <<tasks, app_data, fs, del, limits>>

\* B, lines 117-118: blob.download_to_filename(temp_path).
Downloaded(blob, j) == [blob |-> blob, by |-> j]
\* The file open(temp_path, "wb") leaves when the download then fails.
Truncated(j) == [blob |-> "", by |-> j]

FetchOk(j) ==
    /\ job[j].pc = "fetch"
    /\ job[j].req.filePath \in DOMAIN Bucket
    /\ fs' = DocSet(fs, temp_path(job[j].req),
                    Downloaded(job[j].req.filePath, j))
    /\ job' = [job EXCEPT ![j].pc = "convert"]
    /\ UNCHANGED <<tasks, app_data, del, limits>>

\* The object is missing or the transfer fails. The call fails before it
\* opens the local file, or after: the file it opened for writing is then
\* left empty or removed again, depending on the storage library.
FetchRaise(j) ==
    /\ job[j].pc = "fetch"
    /\ \E file \in {"untouched", "left", "removed"} :
          fs' = CASE file = "left" ->
                       DocSet(fs, temp_path(job[j].req), Truncated(j))
                  [] file = "removed" -> DocDelete(fs, temp_path(job[j].req))
                  [] OTHER -> fs
    /\ job' = Caught(j, IF job[j].req.filePath \in DOMAIN Bucket
                        THEN "download failed"
                        ELSE "404 No such object")
    /\ UNCHANGED <<tasks, app_data, del, limits>>

\* C, lines 121-126: pd.read_csv or pd.read_excel of the file at temp_path,
\* whoever wrote it.
read_file(files, req) ==
    LET path == temp_path(req)
        fmt == IF EndsWith(req.fileName, <<".", "c", "s", "v">>)
               THEN "csv" ELSE "xlsx"
    IN  IF path \notin DOMAIN files
        THEN Raised("No such file or directory")
        ELSE IF files[path].blob = ""
        THEN Raised("No columns to parse from file")
        ELSE IF Bucket[files[path].blob].fmt # fmt
        THEN Raised("file is not in the format of its extension")
        ELSE [raised |-> FALSE, table |-> Bucket[files[path].blob].table,
              by |-> files[path].by]

ParseRaise(j) ==
    /\ job[j].pc = "convert"
    /\ read_file(fs, job[j].req).raised
    /\ job' = Caught(j, read_file(fs, job[j].req).msg)
    /\ UNCHANGED <<tasks, app_data, fs, del, limits>>

\* Line 127: converter.process(raw_data, request.category).
ConvertOk(j) ==
    /\ job[j].pc = "convert"
    /\ ~read_file(fs, job[j].req).raised
    /\ \E out \in process(read_file(fs, job[j].req).table, job[j].req.category) :
          /\ ~out.raised
          /\ job' = [job EXCEPT ![j].pc = "publish", ![j].data = out.rows,
                                ![j].readFrom = read_file(fs, job[j].req).by]
    /\ UNCHANGED <<tasks, app_data, fs, del, limits>>

TransformRaise(j) ==
    /\ job[j].pc = "convert"
    /\ ~read_file(fs, job[j].req).raised
    /\ \E out \in process(read_file(fs, job[j].req).table, job[j].req.category) :
          /\ out.raised
          /\ job' = Caught(j, out.msg)
    /\ UNCHANGED <<tasks, app_data, fs, del, limits>>

\* D, lines 130-140: one set per row of processed_data[:400]; the keys of
\* the record override a column of the same name (only 'category' is one a
\* cleaned header can equal). The server timestamp is left out.
CategoryKey == <<"c", "a", "t", "e", "g", "o", "r", "y">>

Min(a, b) == IF a <= b THEN a ELSE b

\* Mutant: the loop runs over processed_data, without the slice.
PublishBatchUncapped(t, req, data) ==
    {[id |-> RecordId(t, i), sourceFileId |-> t, category |-> req.category,
      customName |-> req.customName,
      item |-> [h \in DOMAIN data[i] \ {CategoryKey} |-> data[i][h]]] :
        i \in 1..Len(data)}

PublishBatch(t, req, data) ==
    {[id |-> RecordId(t, i), sourceFileId |-> t, category |-> req.category,
      customName |-> req.customName,
      item |-> [h \in DOMAIN data[i] \ {CategoryKey} |-> data[i][h]]] :
        i \in 1..Min(Len(data), PublishCap)}

\* The status of task t in the store, "absent" when there is no document.
StatusOf(t) == IF t \in DOMAIN tasks THEN tasks[t].status ELSE "absent"

\* Line 141: batch.commit().
PublishOk(j) ==
    /\ job[j].pc = "publish"
    /\ ~BatchTooLarge(Cardinality(PublishBatch(TaskId(j), job[j].req, job[j].data)))
    /\ app_data' = app_data \cup PublishBatch(TaskId(j), job[j].req, job[j].data)
    /\ job' = [job EXCEPT ![j].pc = "finalize",
                          ![j].commit = StatusOf(TaskId(j))]
    /\ UNCHANGED <<tasks, fs, del, limits>>

PublishRaise(j) ==
    /\ job[j].pc = "publish"
    /\ job' = Caught(j, "commit failed")
    /\ UNCHANGED <<tasks, app_data, fs, del, limits>>

\* E, lines 144-148: task_ref.update(completed).
Completed(data) ==
    [status |-> "completed", recordCount |-> Len(data), notificationSent |-> TRUE]

FinalizeOk(j) ==
    /\ job[j].pc = "finalize"
    /\ ~DocUpdate(tasks, TaskId(j), Completed(job[j].data)).raised
    /\ tasks' = DocUpdate(tasks, TaskId(j), Completed(job[j].data)).docs
    /\ job' = [job EXCEPT ![j].pc = "notify"]
    /\ UNCHANGED <<app_data, fs, del, limits>>

FinalizeRaise(j) ==
    /\ job[j].pc = "finalize"
    /\ job' = Caught(j, IF DocUpdate(tasks, TaskId(j), Completed(job[j].data)).raised
                        THEN "404 No document to update"
                        ELSE "update failed")
    /\ UNCHANGED <<tasks, app_data, fs, del, limits>>

\* F, lines 153-168: messaging.send inside its own try/except.
NotifyOk(j) ==
    /\ job[j].pc = "notify"
    /\ job' = [job EXCEPT ![j].pc = "finally"]
    /\ UNCHANGED <<tasks, app_data, fs, del, limits>>

\* Mutant: the send is not inside a try of its own, the outer handler
\* catches its exception.
NotifyRaiseCaught(j) ==
    /\ job[j].pc = "notify"
    /\ job' = [job EXCEPT ![j].pc = "except", ![j].err = "send failed",
                          ![j].notifyFailed = TRUE]
    /\ UNCHANGED <<tasks, app_data, fs, del, limits>>

NotifyRaise(j) ==
    /\ job[j].pc = "notify"
    /\ job' = [job EXCEPT ![j].pc = "finally", ![j].notifyFailed = TRUE]
    /\ UNCHANGED <<tasks, app_data, fs, del, limits>>

\* Lines 170-173: the outer handler. task_ref was bound at line 113, before
\* anything that raises, so the update is always attempted.
Failed(msg) == [status |-> "error", errorMessage |-> msg]

ExceptOk(j) ==
    /\ job[j].pc = "except"
    /\ ~DocUpdate(tasks, TaskId(j), Failed(job[j].err)).raised
    /\ tasks' = DocUpdate(tasks, TaskId(j), Failed(job[j].err)).docs
    /\ job' = [job EXCEPT ![j].pc = "finally"]
    /\ UNCHANGED <<app_data, fs, del, limits>>

\* The update in the handler raises (NotFound, or the store fails): nothing
\* catches it, it leaves the function after the finally clause.
ExceptRaise(j) ==
    /\ job[j].pc = "except"
    /\ job' = [job EXCEPT ![j].pc = "finally", ![j].escaping = TRUE]
    /\ UNCHANGED <<tasks, app_data, fs, del, limits>>

\* The function is left, normally or by the exception that is propagating,
\* and its locals with it.
Exit(j) == IF job[j].escaping THEN "raised" ELSE "returned"

\* Line 176: os.path.exists(temp_path).
FinallyCheck(j) ==
    /\ job[j].pc = "finally"
    /\ job' = IF temp_path(job[j].req) \in DOMAIN fs
              THEN [job EXCEPT ![j].pc = "remove"]
              ELSE [job EXCEPT ![j].pc = Exit(j), ![j].data = <<>>]
    /\ UNCHANGED <<tasks, app_data, fs, del, limits>>

\* Line 177: os.remove(temp_path).
RemoveOk(j) ==
    /\ job[j].pc = "remove"
    /\ temp_path(job[j].req) \in DOMAIN fs
    /\ fs' = DocDelete(fs, temp_path(job[j].req))
    /\ job' = [job EXCEPT ![j].pc = Exit(j), ![j].data = <<>>]
    /\ UNCHANGED <<tasks, app_data, del, limits>>

\* The file went away since line 176: FileNotFoundError leaves the function.
RemoveRaise(j) ==
    /\ job[j].pc = "remove"
    /\ temp_path(job[j].req) \notin DOMAIN fs
    /\ job' = [job EXCEPT ![j].pc = "raised", ![j].escaping = TRUE,
                          ![j].data = <<>>]
    /\ UNCHANGED <<tasks, app_data, fs, del, limits>>

process_file_task(j) ==
    \/ CreateTaskOk(j) \/ CreateTaskRaise(j)
    \/ FetchOk(j) \/ FetchRaise(j)
    \/ ParseRaise(j) \/ ConvertOk(j) \/ TransformRaise(j)
    \/ PublishOk(j) \/ PublishRaise(j)
    \/ FinalizeOk(j) \/ FinalizeRaise(j)
    \/ NotifyOk(j) \/ NotifyRaise(j)
    \/ ExceptOk(j) \/ ExceptRaise(j)
    \/ FinallyCheck(j) \/ RemoveOk(j) \/ RemoveRaise(j)

\* -------------------------------------------------------- delete_file_task

\* The ids a client can name: those of the tasks that were created (it reads
\* them from the store), and one that never was.
KnownIds == {TaskId(j) : j \in {i \in Jobs : job[i].created}} \cup {UnknownId}

\* POST /delete-cloud: the job is queued and the request acknowledged.
delete_cloud_data(d, t) ==
    /\ del[d].pc = "idle"
    /\ \A i \in 1..(d - 1) : del[i].pc # "idle"
    /\ d <= limits.deletes /\ Runs < limits.runs
    /\ t \in KnownIds
    /\ del' = [del EXCEPT ![d].pc = "get", ![d].taskId = t,
                          ![d].after = \E i \in Deletes :
                              del[i].pc = "returned" /\ del[i].taskId = t]
    /\ UNCHANGED <<tasks, app_data, fs, job, limits>>

\* Lines 204-205: the exception is printed and the function returns.
Swallowed(d) ==
    [del EXCEPT ![d].pc = "returned", ![d].failed = TRUE, ![d].docs = {},
                ![d].at = del[d].pc]

\* 1, lines 183-187: the task document is read.
DeleteGetFound(d) ==
    /\ del[d].pc = "get"
    /\ del[d].taskId \in DOMAIN tasks
    /\ del' = [del EXCEPT ![d].pc = "query"]
    /\ UNCHANGED <<tasks, app_data, fs, job, limits>>

\* Mutant: no early return when the document does not exist.
DeleteGetAbsentGoesOn(d) ==
    /\ del[d].pc = "get"
    /\ del[d].taskId \notin DOMAIN tasks
    /\ del' = [del EXCEPT ![d].pc = "query"]
    /\ UNCHANGED <<tasks, app_data, fs, job, limits>>

DeleteGetAbsent(d) ==
    /\ del[d].pc = "get"
    /\ del[d].taskId \notin DOMAIN tasks
    /\ del' = [del EXCEPT ![d].pc = "returned"]
    /\ UNCHANGED <<tasks, app_data, fs, job, limits>>

DeleteGetRaise(d) ==
    /\ del[d].pc = "get"
    /\ del' = Swallowed(d)
    /\ UNCHANGED <<tasks, app_data, fs, job, limits>>

\* 3, lines 193-196: the records of the task are queried and a delete of
\* each is added to the batch.
DeleteQueryOk(d) ==
    /\ del[d].pc = "query"
    /\ del' = [del EXCEPT ![d].pc = "commit",
                          ![d].docs = {r.id : r \in {x \in app_data :
                                          x.sourceFileId = del[d].taskId}}]
    /\ UNCHANGED <<tasks, app_data, fs, job, limits>>

DeleteQueryRaise(d) ==
    /\ del[d].pc = "query"
    /\ del' = Swallowed(d)
    /\ UNCHANGED <<tasks, app_data, fs, job, limits>>

\* Line 197: batch.commit().
DeleteCommitOk(d) ==
    /\ del[d].pc = "commit"
    /\ ~BatchTooLarge(Cardinality(del[d].docs))
    /\ app_data' = {r \in app_data : r.id \notin del[d].docs}
    /\ del' = [del EXCEPT ![d].pc = "delete"]
    /\ UNCHANGED <<tasks, fs, job, limits>>

\* Mutant: the commit has a try of its own and the run goes on.
DeleteCommitRaiseGoesOn(d) ==
    /\ del[d].pc = "commit"
    /\ del' = [del EXCEPT ![d].pc = "delete", ![d].failed = TRUE,
                          ![d].at = "commit"]
    /\ UNCHANGED <<tasks, app_data, fs, job, limits>>

DeleteCommitRaise(d) ==
    /\ del[d].pc = "commit"
    /\ del' = Swallowed(d)
    /\ UNCHANGED <<tasks, app_data, fs, job, limits>>

\* 4, line 200: the task document is deleted.
DeleteDocOk(d) ==
    /\ del[d].pc = "delete"
    /\ tasks' = DocDelete(tasks, del[d].taskId)
    /\ del' = [del EXCEPT ![d].pc = "returned", ![d].docs = {}]
    /\ UNCHANGED <<app_data, fs, job, limits>>

DeleteDocRaise(d) ==
    /\ del[d].pc = "delete"
    /\ del' = Swallowed(d)
    /\ UNCHANGED <<tasks, app_data, fs, job, limits>>

delete_file_task(d) ==
    \/ DeleteGetFound(d) \/ DeleteGetAbsent(d) \/ DeleteGetRaise(d)
    \/ DeleteQueryOk(d) \/ DeleteQueryRaise(d)
    \/ DeleteCommitOk(d) \/ DeleteCommitRaise(d)
    \/ DeleteDocOk(d) \/ DeleteDocRaise(d)

\* ------------------------------------------------------- the specification

Next ==
    \/ \E j \in Jobs : \E r \in Uploads : trigger_conversion(j, r)
    \/ \E j \in Jobs : process_file_task(j)
    \/ \E d \in Deletes : \E t \in KnownIds : delete_cloud_data(d, t)
    \/ \E d \in Deletes : delete_file_task(d)

Spec == Init /\ [][Next]_vars

SpecLarge == InitLarge /\ [][Next]_vars

\* ------------------------------------------------------ the converter alone

\* converter.process(raw_data, category) called once on a sheet of one row or
\* none: headers that clean to 'stock' (two of them), 'amount' and
\* 'low_stock_alert', cells that are numbers, numerals, other text or missing.
DrawnHeaders ==
    {<<"S", "t", "o", "c", "k">>, <<" ", "S", "T", "O", "C", "K", " ">>,
     <<"A", "m", "o", "u", "n", "t">>,
     <<"L", "o", "w", " ", "S", "t", "o", "c", "k", " ", "A", "l", "e", "r", "t">>}

DrawnCells ==
    {Num(9, 0), Num(10, 0), Num(0 - 1, 0), Text(<<"9", ".", "5">>),
     Text(<<"1", "0">>), Text(<<"n", "/", "a">>), NaN}

DrawnSheets ==
    UNION {{Frame(cols, rows) :
               rows \in {<<>>} \cup {<<row>> : row \in [1..Len(cols) -> DrawnCells]}} :
           cols \in UNION {[1..n -> DrawnHeaders] : n \in 1..DrawnCols}}

Categories == {"financial", "inventory", "other"}

InitConvert ==
    \E sheet \in DrawnSheets, category \in Categories :
        Started([jobs |-> 0, deletes |-> 0, runs |-> 0, uploads |-> "sheet",
                 sheet |-> sheet, category |-> category])

\* The call returns the output rows.
ProcessOk ==
    /\ limits.uploads = "sheet" /\ job[1].pc = "idle"
    /\ \E out \in process(limits.sheet, limits.category) :
          /\ ~out.raised
          /\ job' = [job EXCEPT ![1].pc = "converted", ![1].data = out.rows]
    /\ UNCHANGED <<tasks, app_data, fs, del, limits>>

\* The call raises.
ProcessRaise ==
    /\ limits.uploads = "sheet" /\ job[1].pc = "idle"
    /\ \E out \in process(limits.sheet, limits.category) :
          /\ out.raised
          /\ job' = [job EXCEPT ![1].pc = "failed", ![1].err = out.msg]
    /\ UNCHANGED <<tasks, app_data, fs, del, limits>>

NextConvert == ProcessOk \/ ProcessRaise

SpecConvert == InitConvert /\ [][NextConvert]_vars

\* The service, or the converter alone.
SpecWithConverter == (Init \/ InitConvert) /\ [][Next \/ NextConvert]_vars

\* ------------------------------------------------------------------ claims

\* The run has left process_file_task.
HasLeft(j) == job[j].pc \in {"returned", "raised"}

\* The published records whose provenance is task t.
RecordsOf(t) == {r \in app_data : r.sourceFileId = t}

\* No deletion was requested for task t.
NoDeleteOf(t) == \A d \in Deletes : del[d].taskId # t

\* str(e) of a failed download.
FetchErrors == {"download failed", "404 No such object"}

\* C1: when a run of process_file_task that created its task record has
\* left the function, the task (if still in the store) has status
\* 'completed' or 'error', never 'processing'.
C1_FinalStatusTerminal ==
    \A j \in Jobs :
        HasLeft(j) /\ job[j].created /\ TaskId(j) \in DOMAIN tasks
            => tasks[TaskId(j)].status \in {"completed", "error"}

\* What a step may do to the task documents.
C2_Step ==
    \A j \in Jobs :
        LET t == TaskId(j)
        IN  /\ t \in DOMAIN tasks /\ t \in DOMAIN tasks'
                 /\ tasks'[t].status # tasks[t].status
               => tasks[t].status = "processing"
                    /\ tasks'[t].status \in {"completed", "error"}
            /\ t \notin DOMAIN tasks /\ t \in DOMAIN tasks'
               => ~job[j].created /\ tasks'[t].status = "processing"

\* C2: a step changes the status of a task only from 'processing' to
\* 'completed' or 'error', and a document appears only under an id that never
\* had one, with status 'processing': terminal statuses stay, and a deleted
\* task does not reappear.
C2_StatusMonotonic == [][C2_Step]_vars

\* C2 witness: a run updated its task after a deletion removed it (the update
\* raised NotFound), and a task is in a terminal status while its run goes on.
C2_Witness ==
    /\ \E j \in Jobs :
          /\ job[j].created /\ TaskId(j) \notin DOMAIN tasks
          /\ job[j].err = "404 No document to update"
    /\ \E j \in Jobs : job[j].notifyFailed /\ StatusOf(TaskId(j)) = "completed"

\* C3: once a task is 'completed' (and no deletion was requested for it), the
\* records in app_data with its id as sourceFileId are as many as the
\* recordCount stored on it.
C3_CountMatchesRecordCount ==
    \A j \in Jobs :
        StatusOf(TaskId(j)) = "completed" /\ NoDeleteOf(TaskId(j))
            => Cardinality(RecordsOf(TaskId(j))) = tasks[TaskId(j)].recordCount

\* The step by which a second deletion of a task returns.
C4_Step ==
    \A d \in Deletes :
        /\ del[d].pc # "returned" /\ del'[d].pc = "returned"
        /\ del[d].after
        /\ \A e \in Deletes : del'[e].taskId = del[d].taskId => ~del'[e].failed
        => RecordsOf(del[d].taskId)' = {}

\* C4: when a run of delete_file_task returns that started after another run
\* for the same task id had returned (no store call of either having
\* failed), it leaves no record in app_data with that sourceFileId.
C4_SecondDeleteLeavesNone == [][C4_Step]_vars

\* The step by which a run whose download failed leaves the function.
C5_Step ==
    \A j \in Jobs :
        /\ ~HasLeft(j) /\ HasLeft(j)'
        /\ job[j].err \in FetchErrors
        /\ NoDeleteOf(TaskId(j))
        => /\ StatusOf(TaskId(j))' = "error"
           /\ tasks'[TaskId(j)].errorMessage # ""
           /\ RecordsOf(TaskId(j))' = {}
           /\ temp_path(job[j].req) \notin DOMAIN fs'

\* C5: when a run whose download failed leaves the function, its task (no
\* deletion having been requested for it) has status 'error' and a non-empty
\* errorMessage, app_data holds no record with its id, and the scratch file
\* does not exist.
C5_FetchFailureOutcome == [][C5_Step]_vars

\* C6: no exception leaves process_file_task.
C6_NoExceptionEscapes == \A j \in Jobs : job[j].pc # "raised"

\* C7: no run parses a scratch file that another run downloaded.
C7_NoForeignScratch == \A j \in Jobs : job[j].readFrom \in {0, j}

\* C8: every record in app_data was committed while the task its
\* sourceFileId names was in the store with status 'processing'.
C8_CommittedWhileProcessing ==
    \A j \in Jobs : RecordsOf(TaskId(j)) # {} => job[j].commit = "processing"

\* The task of a run that is at the send.
C9_Attempt ==
    \A j \in Jobs :
        job[j].pc = "notify" /\ NoDeleteOf(TaskId(j))
            => /\ StatusOf(TaskId(j)) = "completed"
               /\ tasks[TaskId(j)].recordCount = Len(job[j].data)
               /\ tasks[TaskId(j)].notificationSent

\* The task of a run whose send failed.
C9_AfterFailure ==
    \A j \in Jobs :
        job[j].notifyFailed /\ TaskId(j) \in DOMAIN tasks
            => /\ tasks[TaskId(j)].status = "completed"
               /\ tasks[TaskId(j)].notificationSent
               /\ "errorMessage" \notin DOMAIN tasks[TaskId(j)]
               /\ job[j].pc \in {"finally", "remove", "returned", "raised"}

\* The step of the send.
C9_Step ==
    \A j \in Jobs :
        job[j].pc = "notify" /\ job'[j].pc # "notify"
            => tasks' = tasks /\ app_data' = app_data

\* C9: the send is attempted only when the run has updated its task to
\* 'completed' with recordCount and notificationSent set; the step of the
\* send changes neither a task nor a record; and after a failed send the
\* task, while in the store, stays 'completed' with notificationSent true and
\* no errorMessage.
C9_NotifyFailureChangesNothing ==
    [](C9_Attempt /\ C9_AfterFailure) /\ [][C9_Step]_vars

\* C9 witness: a send failed and the run has left the function with its task
\* and the task's records in the store.
C9_Witness ==
    \E j \in Jobs :
        /\ job[j].notifyFailed /\ HasLeft(j)
        /\ TaskId(j) \in DOMAIN tasks
        /\ RecordsOf(TaskId(j)) # {}

\* C10: the download starts only when the set of the task record has
\* returned, the record being in the store with status 'processing' unless a
\* deletion was requested for it; a run whose set failed downloads nothing,
\* parses nothing, publishes nothing and sends nothing.
C10_TaskBeforeFetch ==
    \A j \in Jobs :
        /\ job[j].pc = "fetch" => job[j].created
        /\ job[j].pc = "fetch" /\ NoDeleteOf(TaskId(j))
              => StatusOf(TaskId(j)) = "processing"
        /\ ~job[j].created
              => /\ job[j].pc \in {"idle", "create", "except", "finally",
                                   "remove", "returned", "raised"}
                 /\ job[j].err \in {"", "503 set failed"}
                 /\ \A p \in DOMAIN fs : fs[p].by # j
                 /\ job[j].readFrom = 0
                 /\ job[j].commit = "none" /\ RecordsOf(TaskId(j)) = {}
                 /\ ~job[j].notifyFailed

\* C10 witness: the set failed and the run has left the function; another
\* run is about to download.
C10_Witness ==
    /\ \E j \in Jobs : job[j].err = "503 set failed" /\ HasLeft(j)
    /\ \E j \in Jobs : job[j].pc = "fetch"

\* The step of a run's commit, and the steps that add records.
C11_Step ==
    /\ \A j \in Jobs :
          job[j].pc = "publish" /\ job'[j].pc # "publish"
          => LET n == Len(job[j].data)
                 kept == IF n <= PublishCap THEN n ELSE PublishCap
                 new == app_data' \ app_data
             IN  /\ app_data \subseteq app_data'
                 /\ job'[j].pc \in {"finalize", "except"}
                 /\ job'[j].pc = "except" => new = {}
                 /\ job'[j].pc = "finalize" => Cardinality(new) = kept
                 /\ Cardinality(new) <= BatchLimit
                 /\ \A r \in new :
                       /\ r.sourceFileId = TaskId(j)
                       /\ \E i \in 1..kept :
                             /\ r.id = RecordId(TaskId(j), i)
                             /\ r.item = [h \in DOMAIN job[j].data[i] \ {CategoryKey}
                                             |-> job[j].data[i][h]]
    /\ ~(app_data' \subseteq app_data)
          => \E j \in Jobs : job[j].pc = "publish" /\ job'[j].pc = "finalize"
    /\ \A j \in Jobs :
          job'[j].pc = "publish" => job[j].pc \in {"convert", "publish"}

\* C11: a run commits once; the commit adds either nothing (it failed) or,
\* for n transformed rows, exactly the first min(n, 400) rows as new records
\* of its task, never more than the store's 500 operations, and removes
\* nothing; rows past the 400th are in no record.
C11_SingleCappedCommit == [][C11_Step]_vars

\* C11 witness: a run with more than 400 transformed rows has committed and
\* 400 records of its task are in the store.
C11_Witness ==
    \E j \in Jobs :
        /\ job[j].pc = "finalize" /\ Len(job[j].data) > PublishCap
        /\ Cardinality(RecordsOf(TaskId(j))) = PublishCap

\* The step of a deletion's commit.
C12_Step ==
    \A d \in Deletes :
        del[d].pc = "commit" /\ del'[d].pc = "delete"
        => /\ Cardinality(del[d].docs) <= BatchLimit
           /\ \A r \in RecordsOf(del[d].taskId) : r.id \in del[d].docs

\* C12: the batch a run of delete_file_task commits holds at most 500
\* deletes, and one for every record in app_data whose sourceFileId is the
\* run's task id.
C12_DeleteBatchComplete == [][C12_Step]_vars

\* A deletion that is at its lookup of a task that is not in the store.
C13_Step ==
    \A d \in Deletes :
        del[d].pc = "get" /\ del[d].taskId \notin DOMAIN tasks
        => /\ del[d].taskId \notin DOMAIN tasks'
           /\ del'[d] # del[d]
                 => /\ del'[d].pc = "returned" /\ del'[d].docs = {}
                    /\ tasks' = tasks /\ app_data' = app_data

\* C13: a run of delete_file_task for a task id that has no document stays
\* without one until its lookup, and its lookup is its last step: the run
\* returns, no exception leaves it, no batch is built, and processing_tasks
\* and app_data are as they were.
C13_AbsentTaskIsNoOp == [][C13_Step]_vars

\* C13 witness: a deletion of an id no task ever had has returned without a
\* failure, with tasks and records of other ids in the store.
C13_Witness ==
    /\ \E d \in Deletes :
          /\ del[d].pc = "returned" /\ ~del[d].failed
          /\ del[d].taskId = UnknownId
    /\ DOMAIN tasks # {} /\ app_data # {}

\* The tasks of two runs are two documents, and every record names the task
\* of a run that created one.
C14_OwnId ==
    /\ \A j, k \in Jobs :
          j # k /\ job[j].created /\ job[k].created => TaskId(j) # TaskId(k)
    /\ \A r \in app_data :
          \E j \in Jobs : job[j].created /\ r.sourceFileId = TaskId(j)

\* A step of run j of process_file_task.
C14_Step ==
    \A j \in Jobs :
        job'[j] # job[j]
        => /\ \A t \in (DOMAIN tasks \cup DOMAIN tasks') \ {TaskId(j)} :
                 t \in DOMAIN tasks /\ t \in DOMAIN tasks' /\ tasks'[t] = tasks[t]
           /\ TaskId(j) \in DOMAIN tasks => TaskId(j) \in DOMAIN tasks'
           /\ app_data \subseteq app_data'
           /\ \A r \in app_data' \ app_data : r.sourceFileId = TaskId(j)

\* C14: in any interleaving, the runs of process_file_task create tasks
\* under ids that differ from run to run; a step of a run creates or updates
\* no task but its own and removes none, removes or changes no record, and
\* every record it adds has its own task's id as sourceFileId.
C14_JobsKeepToTheirTask == [](C14_OwnId) /\ [][C14_Step]_vars

\* C14 witness: two runs have both completed their tasks and the records of
\* both are in the store.
C14_Witness ==
    \E j, k \in Jobs :
        /\ j # k
        /\ StatusOf(TaskId(j)) = "completed" /\ StatusOf(TaskId(k)) = "completed"
        /\ RecordsOf(TaskId(j)) # {} /\ RecordsOf(TaskId(k)) # {}

\* The sheet the converter was given, its headers normalised, and the cell
\* of row i under header h.
GivenSheet == clean_headers(limits.sheet)
GivenCell(i, h) == GivenSheet.rows[i][CHOOSE c \in Labelled(GivenSheet, h) : TRUE]

\* The drawn cells and the cells of the ledger sheet by value: the number a
\* cell stands for, or 0.
C15_Amount(c) ==
    CASE c = Text(<<"9", ".", "5">>) -> Num(95, 1)
      [] c = Text(<<"1", "0">>) -> Num(10, 0)
      [] c.k = "num" -> c
      [] OTHER -> Num(0, 0)

\* The converter alone, category 'financial': the amount of every output row.
C15_Transform ==
    limits.uploads = "sheet" /\ job[1].pc = "converted"
        /\ limits.category = "financial"
    => \A i \in 1..Len(job[1].data) :
          Amount \in DOMAIN job[1].data[i]
          => job[1].data[i][Amount] = C15_Amount(GivenCell(i, Amount))

\* The ledger upload: one amount of its rows is missing.
C15_Ledger == Bucket["uploads/ledger.csv"].table

\* A run of category 'financial' has left the function with no step failed,
\* having parsed the ledger upload, and no deletion was requested.
C15_Ingested(j) ==
    /\ HasLeft(j) /\ job[j].err = ""
    /\ job[j].req.category = "financial"
    /\ job[j].readFrom # 0
    /\ job[job[j].readFrom].req.filePath = "uploads/ledger.csv"
    /\ NoDeleteOf(TaskId(j))

C15_EndToEnd ==
    \A j \in Jobs :
        C15_Ingested(j)
        => LET t == TaskId(j)
           IN  /\ StatusOf(t) = "completed"
               /\ tasks[t].recordCount = Len(C15_Ledger.rows)
               /\ Cardinality(RecordsOf(t)) = Len(C15_Ledger.rows)
               /\ \A i \in 1..Len(C15_Ledger.rows) :
                     \E r \in RecordsOf(t) :
                         /\ r.id = RecordId(t, i)
                         /\ r.item[Amount] = C15_Amount(C15_Ledger.rows[i][1])
               /\ Cardinality({r \in RecordsOf(t) : r.item[Amount] = Num(0, 0)}) = 1

\* C15: for category 'financial' the transform gives every row's amount
\* (header normalised) as the number the cell stands for, and as 0 when it
\* stands for none, a missing cell included; and a run that ingested the
\* ledger file (one amount of its rows missing) with no step failed ends with
\* its task 'completed', recordCount the number of rows, one record per row,
\* and exactly one record with amount 0.
C15_AmountCoercedOrZero == C15_Transform /\ C15_EndToEnd

\* C15 witness: a run has ingested the ledger file it downloaded itself and
\* returned; its records are in the store.
C15_Witness ==
    \E j \in Jobs :
        /\ C15_Ingested(j) /\ job[j].readFrom = j /\ job[j].pc = "returned"
        /\ Cardinality(RecordsOf(TaskId(j))) = SmallRows

\* The drawn cells by value: those that are numbers below 10, and the number
\* each numeral stands for.
C16_Below10 == {Num(9, 0), Num(0 - 1, 0), Text(<<"9", ".", "5">>)}
C16_Value(c) ==
    CASE c = Text(<<"9", ".", "5">>) -> Num(95, 1)
      [] c = Text(<<"1", "0">>) -> Num(10, 0)
      [] OTHER -> c

\* C16 as claimed: for 'inventory' and a sheet with a 'stock' column, every
\* output row has the stock as a number (where it is one) and
\* low_stock_alert true exactly when that number is below 10; for another
\* category, or without the column, no low_stock_alert is added.
C16_StockNumericAndAlert ==
    job[1].pc = "converted"
    => \A i \in 1..Len(job[1].data) :
          LET row == job[1].data[i]
          IN  IF limits.category = "inventory" /\ Stock \in DOMAIN row
              THEN /\ C16_Value(GivenCell(i, Stock)).k = "num"
                        => row[Stock] = C16_Value(GivenCell(i, Stock))
                   /\ LowStockAlert \in DOMAIN row
                   /\ row[LowStockAlert] = Bool(GivenCell(i, Stock) \in C16_Below10)
              ELSE LowStockAlert \in DOMAIN row
                      => LowStockAlert \in Columns(GivenSheet)

\* C16 amended: for 'inventory' and a sheet with a 'stock' column, every
\* output row keeps the stock cell as it was given (a missing one as the
\* empty text) and has low_stock_alert true exactly when the cell, read as a
\* number, is below 10; for another category, or without the column, no
\* low_stock_alert is added.
C16_AlertFromStock ==
    job[1].pc = "converted"
    => \A i \in 1..Len(job[1].data) :
          LET row == job[1].data[i]
          IN  IF limits.category = "inventory" /\ Stock \in DOMAIN row
              THEN /\ row[Stock] = IF GivenCell(i, Stock) = NaN THEN EmptyText
                                    ELSE GivenCell(i, Stock)
                   /\ LowStockAlert \in DOMAIN row
                   /\ row[LowStockAlert] = Bool(GivenCell(i, Stock) \in C16_Below10)
              ELSE LowStockAlert \in DOMAIN row
                      => LowStockAlert \in Columns(GivenSheet)

\* C16 witness: an 'inventory' sheet whose stock is the numeral 10 was
\* converted, next to a column that was already named low_stock_alert.
C16_Witness ==
    /\ job[1].pc = "converted" /\ limits.category = "inventory"
    /\ Len(job[1].data) = 1
    /\ Stock \in DOMAIN job[1].data[1]
    /\ GivenCell(1, Stock) = Text(<<"1", "0">>)
    /\ LowStockAlert \in Columns(GivenSheet)
    /\ job[1].data[1][LowStockAlert] = Bool(FALSE)

\* No run of either kind is in flight.
C17_Quiescent ==
    /\ \A j \in Jobs : job[j].pc \in {"idle", "returned", "raised"}
    /\ \A d \in Deletes : del[d].pc \in {"idle", "returned"}

\* C17: when no ingestion and no deletion is in flight, every record in
\* app_data names, as sourceFileId, a task that is in processing_tasks.
C17_NoOrphanRecords ==
    C17_Quiescent => \A r \in app_data : r.sourceFileId \in DOMAIN tasks

\* C18: when a run has left process_file_task and its task has status
\* 'error', app_data holds no record whose sourceFileId is that task's id.
C18_ErrorMeansNoRecords ==
    \A j \in Jobs :
        HasLeft(j) /\ StatusOf(TaskId(j)) = "error" => RecordsOf(TaskId(j)) = {}

\* The steps of the deletions, and the steps that remove a task.
C19_Step ==
    /\ \A d \in Deletes :
          /\ del[d].pc = "commit" /\ del'[d].pc # "commit"
                => \/ /\ del'[d].pc = "delete" /\ ~del'[d].failed
                       /\ \A r \in app_data' : r.id \notin del[d].docs
                   \/ /\ del'[d].pc = "returned" /\ del'[d].failed
                       /\ tasks' = tasks /\ app_data' = app_data
          /\ del'[d].pc = "delete" => del[d].pc \in {"commit", "delete"}
          /\ del[d].pc = "returned" => del'[d] = del[d]
    /\ \A t \in DOMAIN tasks \ DOMAIN tasks' :
          \E d \in Deletes :
              del[d].pc = "delete" /\ del[d].taskId = t /\ del'[d].pc = "returned"

\* The only deletion of its task so far failed at the commit, and the second
\* one has started.
C19_Retry(d, e) ==
    /\ d # e /\ del[d].at = "commit"
    /\ del[e].taskId = del[d].taskId /\ del[e].after
    /\ \A x \in Deletes \ {d, e} : del[x].taskId # del[d].taskId

\* A deletion that follows one that failed at the commit finds the task.
C19_TaskLeftInPlace ==
    \A d, e \in Deletes :
        C19_Retry(d, e) /\ del[e].pc = "get" => del[d].taskId \in DOMAIN tasks

\* C19: a deletion removes the task document only in the step after its
\* batch committed; when the commit fails, that step changes neither a task
\* nor a record, the run returns (the exception swallowed) and does nothing
\* more; and a later deletion of the same id finds the task in the store.
C19_TaskDeletedAfterCommit == [](C19_TaskLeftInPlace) /\ [][C19_Step]_vars

\* C19 witness: the first deletion of a task with published records failed
\* at the commit; the second one, started after it, has removed the records
\* and the task and returned.
C19_Witness ==
    \E d, e \in Deletes :
        /\ C19_Retry(d, e)
        /\ del[e].pc = "returned" /\ ~del[e].failed
        /\ del[d].taskId \notin DOMAIN tasks
        /\ RecordsOf(del[d].taskId) = {}
        /\ \E j \in Jobs : TaskId(j) = del[d].taskId /\ job[j].commit = "processing"

====
